---- MODULE Spec2Model ----
(***************************************************************************)
(* Streaming demos of the repository: the chunk-consumption loops of       *)
(* src/streaming/main.py (StreamingDemo) and src/streaming/                *)
(* simple_example.py.  A text is a sequence of one-character strings; an   *)
(* optional value is None (<<>>) or Some(x) (<<x>>).  The provider's       *)
(* stream is an external input: each step it yields one chunk drawn from a *)
(* small pool, ends, or raises.                                            *)
(***************************************************************************)
EXTENDS Integers, Sequences, FiniteSets, TLC

VARIABLES
    demo,              \* the coroutine that is running
    pc,                \* its position: idle, consuming, completed, interrupted, cancelled
    outcome,           \* how it left its caller: running, returned (None), raised
    chunks,            \* history: the chunks the stream has delivered, in arrival order
    console,           \* what has been printed, in order
    full_response,     \* basic_streaming_demo / streaming_with_collection
    function_calls,    \* function_calling_streaming_demo
    content_parts,     \* function_calling_streaming_demo
    word_count,        \* real_time_processing_demo
    sentence_count,    \* real_time_processing_demo
    current_sentence,  \* real_time_processing_demo
    stats_rows,        \* real_time_processing_demo: stats_table.rows
    content_updates,   \* history: the texts given to layout["content"].update
    requests,          \* history: the requests given to chat.completions.create
    conversation_history,  \* interactive_streaming
    response_content,  \* interactive_streaming
    turns,             \* history: the turns of interactive_streaming
    runner,            \* position of run_all_demos: off, loop, done
    started            \* history: the demos run_all_demos has awaited

vars == <<demo, pc, outcome, chunks, console, full_response, function_calls,
          content_parts, word_count, sentence_count, current_sentence,
          stats_rows, content_updates, requests, conversation_history,
          response_content, turns, runner, started>>

----------------------------------------------------------------------------
(* Bounds of the model *)

MaxChunks == 3

MaxFragLen == 2

----------------------------------------------------------------------------
(* Optional values and texts *)

None == <<>>

Some(x) == <<x>>

RECURSIVE TextsUpTo(_, _)
TextsUpTo(alphabet, n) ==
    IF n = 0 THEN {<<>>}
    ELSE LET shorter == TextsUpTo(alphabet, n - 1)
         IN  shorter \cup {Append(t, c) : t \in shorter, c \in alphabet}

RECURSIVE Flatten(_)
Flatten(texts) ==
    IF texts = <<>> THEN <<>> ELSE Head(texts) \o Flatten(Tail(texts))

\* str.split() separators that occur in the model's texts
Whitespace == {" ", "\n", "\t"}

\* len(content.split()): the number of maximal runs of non-whitespace
SplitCount(text) ==
    Cardinality({i \in DOMAIN text :
                    /\ text[i] \notin Whitespace
                    /\ (i = 1 \/ text[i - 1] \in Whitespace)})

\* content.count(ch)
CountChar(text, ch) == Cardinality({i \in DOMAIN text : text[i] = ch})

Digits == <<"0", "1", "2", "3", "4", "5", "6", "7", "8", "9">>

\* str(n) for n >= 0
RECURSIVE Str(_)
Str(n) ==
    IF n < 10 THEN <<Digits[n + 1]>>
    ELSE Str(n \div 10) \o <<Digits[(n % 10) + 1]>>

----------------------------------------------------------------------------
(* Chunks of the stream: chunk.choices[0].delta *)

Chunk(content, function_call) ==
    [content |-> content, function_call |-> function_call]

FunctionCall(name, arguments) == [name |-> name, arguments |-> arguments]

Hello == <<"H", "e", "l", "l", "o", " ">>

World == <<"w", "o", "r", "l", "d">>

Bang == <<"!">>

\* contents the stream of the echoing demos may carry
EchoTexts == {<<>>, <<"a">>, <<"b", " ">>}

\* contents the stream of real_time_processing_demo may carry
RealTimeTexts ==
    TextsUpTo({"a", " "}, MaxFragLen)
        \cup {Hello, World, Bang, <<"a", ".">>, <<"a", " ", "a">>}

ContentChunks(texts) ==
    {Chunk(None, None)} \cup {Chunk(Some(t), None) : t \in texts}

\* chunks the stream of function_calling_streaming_demo may carry
FunctionChunks ==
    { Chunk(None, None),
      Chunk(Some(<<"a">>), None),
      Chunk(None, Some(FunctionCall(Some("get_weather"), None))),
      Chunk(None, Some(FunctionCall(Some("get_weather"), Some(<<>>)))),
      Chunk(None, Some(FunctionCall(Some("get_weather"), Some(<<"{">>)))),
      Chunk(None, Some(FunctionCall(None, Some(<<"{">>)))),
      Chunk(None, Some(FunctionCall(Some(""), Some(<<"}">>)))),
      Chunk(Some(<<"a">>), Some(FunctionCall(None, Some(<<"}">>)))) }

Demos == {"basic_streaming_demo", "streaming_with_collection",
          "function_calling_streaming_demo", "real_time_processing_demo",
          "error_handling_demo"}

StreamChunks(d) ==
    CASE d \in {"basic_streaming_demo", "streaming_with_collection"} ->
            ContentChunks(EchoTexts)
      [] d = "real_time_processing_demo" -> ContentChunks(RealTimeTexts)
      [] d = "function_calling_streaming_demo" -> FunctionChunks
      [] OTHER -> ContentChunks({<<"a">>})

ErrorKinds == {"BadRequestError", "AuthenticationError", "RateLimitError",
               "Exception"}

Printed(kind, text) == [kind |-> kind, text |-> text]

----------------------------------------------------------------------------
(* Statements of the loops, as operators *)

PrependContent(text, content) == content \o text

\* full_response += content; current_sentence += content
AppendContent(text, content) == text \o content

AddCharacters(count, content) == count + Len(content)

\* word_count += len(content.split())
AddWords(count, content) == count + SplitCount(content)

AddSentencesPeriodOnly(count, content) ==
    IF \E punct \in {".", "!", "?"} : CountChar(content, punct) > 0
    THEN count + CountChar(content, ".")
    ELSE count

\* if any(punct in content for punct in '.!?'):
\*     sentence_count += content.count('.') + content.count('!') + content.count('?')
AddSentences(count, content) ==
    IF \E punct \in {".", "!", "?"} : CountChar(content, punct) > 0
    THEN count + CountChar(content, ".") + CountChar(content, "!")
               + CountChar(content, "?")
    ELSE count

StatsRowsWordsTwice(words, sentences, text) ==
    << [metric |-> "Words", count |-> Str(words)],
       [metric |-> "Sentences", count |-> Str(sentences)],
       [metric |-> "Characters", count |-> Str(words)] >>

\* stats_table.rows = [["Words", str(word_count)], ["Sentences", ...], ["Characters", ...]]
StatsRows(words, sentences, text) ==
    << [metric |-> "Words", count |-> Str(words)],
       [metric |-> "Sentences", count |-> Str(sentences)],
       [metric |-> "Characters", count |-> Str(Len(text))] >>

DisplayedChunk(text, content) == content

\* layout["content"].update(Panel(current_sentence, title="Streaming Content"))
DisplayedText(text, content) == text

\* truth value of an optional str: neither None nor ""
TruthyName(name) == name # None /\ name[1] # ""

TruthyText(text) == text # None /\ text[1] # <<>>

\* function_call.arguments or ""
OrEmpty(text) == IF TruthyText(text) THEN text[1] ELSE <<>>

\* function_calls.append({"name": ..., "arguments": function_call.arguments or ""})
StartCall(calls, function_call) ==
    Append(calls, [name |-> function_call.name[1],
                   arguments |-> OrEmpty(function_call.arguments)])

ExtendFirstCall(calls, function_call) ==
    IF calls # <<>>
    THEN [calls EXCEPT ![1].arguments = @ \o function_call.arguments[1]]
    ELSE calls

ExtendOrOpenCall(calls, function_call) ==
    IF calls # <<>>
    THEN [calls EXCEPT ![Len(calls)].arguments = @ \o function_call.arguments[1]]
    ELSE <<[name |-> "", arguments |-> function_call.arguments[1]]>>

\* if function_calls: function_calls[-1]["arguments"] += function_call.arguments
ExtendLastCall(calls, function_call) ==
    IF calls # <<>>
    THEN [calls EXCEPT ![Len(calls)].arguments = @ \o function_call.arguments[1]]
    ELSE calls

\* the body of "if chunk.choices[0].delta.function_call is not None"
OnFunctionCall(calls, function_call) ==
    IF TruthyName(function_call.name) THEN StartCall(calls, function_call)
    ELSE IF TruthyText(function_call.arguments)
         THEN ExtendLastCall(calls, function_call)
         ELSE calls

\* the message an except clause prints for an exception of the given kind
ErrorMessage(d, kind) ==
    CASE d = "basic_streaming_demo" -> "Error during streaming"
      [] d = "function_calling_streaming_demo" -> "Error during function calling"
      [] d = "real_time_processing_demo" -> "Error during real-time processing"
      [] d \in {"streaming_with_collection", "interactive_streaming"} -> "Error"
      [] d = "error_handling_demo" /\ kind = "BadRequestError" ->
            "Handled BadRequestError"
      [] d = "error_handling_demo" /\ kind = "AuthenticationError" ->
            "Authentication Error"
      [] d = "error_handling_demo" /\ kind = "RateLimitError" ->
            "Rate Limit Error"
      [] OTHER -> "Unexpected Error"

\* what a demo prints once its stream is exhausted
RECURSIVE CallPanels(_)
CallPanels(calls) ==
    IF calls = <<>> THEN <<>>
    ELSE <<Printed("function_call",
                   <<"Function: ", Head(calls).name, "\nArguments: ">>
                       \o Head(calls).arguments)>>
         \o CallPanels(Tail(calls))

CompletionOutput(d) ==
    CASE d = "basic_streaming_demo" -> <<Printed("panel", full_response)>>
      [] d = "streaming_with_collection" -> <<Printed("complete", full_response)>>
      [] d = "function_calling_streaming_demo" -> CallPanels(function_calls)
      [] d = "error_handling_demo" -> <<Printed("ok", <<"No errors occurred">>)>>
      [] OTHER -> <<>>

Message(role, content) == [role |-> role, content |-> content]

\* the messages a demo sends; a fixed prompt is one symbol of the text
DemoMessages(d) ==
    CASE d = "basic_streaming_demo" ->
            <<Message("system", <<"You are a helpful assistant. Respond in a conversational manner.">>),
              Message("user", <<"Write a short story about a robot learning to paint. Make it about 3 paragraphs.">>)>>
      [] d = "function_calling_streaming_demo" ->
            <<Message("user", <<"What's the weather like in New York? Please use Celsius.">>)>>
      [] d = "real_time_processing_demo" ->
            <<Message("user", <<"List the top 5 programming languages and explain why they're popular. Format as a numbered list.">>)>>
      [] d = "error_handling_demo" -> <<Message("user", <<"Hello">>)>>
      [] d = "streaming_with_collection" ->
            <<Message("user", <<"Write a haiku about artificial intelligence.">>)>>
      [] OTHER -> conversation_history

\* the arguments of chat.completions.create(model=..., messages=..., stream=True)
Request(d) ==
    [model |-> IF d = "error_handling_demo" THEN "invalid-model-name"
               ELSE "gpt-3.5-turbo",
     messages |-> DemoMessages(d)]

----------------------------------------------------------------------------
(* Initial state: one demo is about to issue its request *)

Init ==
    /\ demo \in Demos
    /\ pc = "idle"
    /\ outcome = "running"
    /\ chunks = <<>>
    /\ console = <<>>
    /\ full_response = <<>>
    /\ function_calls = <<>>
    /\ content_parts = <<>>
    /\ word_count = 0
    /\ sentence_count = 0
    /\ current_sentence = <<>>
    /\ stats_rows = <<>>
    /\ content_updates = <<>>
    /\ requests = <<>>
    /\ conversation_history = <<>>
    /\ response_content = <<>>
    /\ turns = <<>>
    /\ runner = "off"
    /\ started = <<>>

locals == <<full_response, function_calls, content_parts, word_count,
            sentence_count, current_sentence, stats_rows, content_updates>>

\* the locals of interactive_streaming
session == <<conversation_history, response_content, turns>>

\* the state of run_all_demos
run == <<runner, started>>

----------------------------------------------------------------------------
(* Actions *)

CreateStreamAgain ==
    /\ pc \in {"idle", "interrupted"}
    /\ pc' = "consuming"
    /\ requests' = Append(requests, Request(demo))
    /\ UNCHANGED <<demo, outcome, chunks, console, locals, session, run>>

\* stream = await self.client.chat.completions.create(..., stream=True) returns
CreateStream ==
    /\ pc = "idle"
    /\ pc' = "consuming"
    /\ requests' = Append(requests, Request(demo))
    /\ UNCHANGED <<demo, outcome, chunks, console, locals, session, run>>

HandleSilently(kind) ==
    /\ pc' = "interrupted"
    /\ outcome' = "returned"
    /\ UNCHANGED <<demo, chunks, console, locals, session, run>>

HandleReraises(kind) ==
    /\ pc' = "interrupted"
    /\ outcome' = "raised"
    /\ console' = Append(console, Printed("error", <<ErrorMessage(demo, kind)>>))
    /\ UNCHANGED <<demo, chunks, locals, session, run>>

\* the except clause: print the error, fall off the end of the coroutine
Handle(kind) ==
    /\ pc' = "interrupted"
    /\ outcome' = "returned"
    /\ console' = Append(console, Printed("error", <<ErrorMessage(demo, kind)>>))
    /\ UNCHANGED <<demo, chunks, locals, session, run>>

CreateRaisesThenRetries(kind) ==
    /\ pc = "idle"
    /\ requests' = Append(requests, Request(demo))
    /\ IF kind = "RateLimitError" /\ Len(requests) < 2
       THEN UNCHANGED <<demo, pc, outcome, chunks, console, locals, session, run>>
       ELSE Handle(kind)

\* the create call raises: the request is rejected before any chunk arrives
CreateRaises(kind) ==
    /\ pc = "idle"
    /\ requests' = Append(requests, Request(demo))
    /\ Handle(kind)

\* async for chunk in stream: one iteration of the echoing loops
BasicChunk(chunk) ==
    /\ demo \in {"basic_streaming_demo", "streaming_with_collection"}
    /\ pc = "consuming"
    /\ Len(chunks) < MaxChunks
    /\ chunks' = Append(chunks, chunk)
    /\ IF chunk.content # None
       THEN /\ full_response' = AppendContent(full_response, chunk.content[1])
            /\ console' = Append(console, Printed("content", chunk.content[1]))
       ELSE UNCHANGED <<full_response, console>>
    /\ UNCHANGED <<demo, pc, outcome, function_calls, content_parts, word_count,
                   sentence_count, current_sentence, stats_rows, content_updates,
                   requests, session, run>>

\* one iteration of the loop of function_calling_streaming_demo
FunctionChunk(chunk) ==
    /\ demo = "function_calling_streaming_demo"
    /\ pc = "consuming"
    /\ Len(chunks) < MaxChunks
    /\ chunks' = Append(chunks, chunk)
    /\ IF chunk.content # None
       THEN /\ content_parts' = Append(content_parts, chunk.content[1])
            /\ console' = Append(console, Printed("content", chunk.content[1]))
       ELSE UNCHANGED <<content_parts, console>>
    /\ IF chunk.function_call # None
       THEN function_calls' = OnFunctionCall(function_calls, chunk.function_call[1])
       ELSE UNCHANGED function_calls
    /\ UNCHANGED <<demo, pc, outcome, full_response, word_count, sentence_count,
                   current_sentence, stats_rows, content_updates, requests,
                   session, run>>

\* one iteration of the loop of real_time_processing_demo
RealTimeChunk(chunk) ==
    /\ demo = "real_time_processing_demo"
    /\ pc = "consuming"
    /\ Len(chunks) < MaxChunks
    /\ chunks' = Append(chunks, chunk)
    /\ IF chunk.content # None
       THEN /\ current_sentence' = AppendContent(current_sentence, chunk.content[1])
            /\ word_count' = AddWords(word_count, chunk.content[1])
            /\ sentence_count' = AddSentences(sentence_count, chunk.content[1])
            /\ stats_rows' = StatsRows(word_count', sentence_count', current_sentence')
            /\ content_updates' = Append(content_updates,
                     DisplayedText(current_sentence', chunk.content[1]))
       ELSE UNCHANGED <<current_sentence, word_count, sentence_count, stats_rows,
                        content_updates>>
    /\ UNCHANGED <<demo, pc, outcome, console, full_response, function_calls,
                   content_parts, requests, session, run>>

\* async for chunk in stream: pass
ErrorDemoChunk(chunk) ==
    /\ demo = "error_handling_demo"
    /\ pc = "consuming"
    /\ Len(chunks) < MaxChunks
    /\ chunks' = Append(chunks, chunk)
    /\ UNCHANGED <<demo, pc, outcome, console, locals, requests, session, run>>

\* the stream is exhausted: the statements after the loop, then return
StreamEnds ==
    /\ pc = "consuming"
    /\ pc' = "completed"
    /\ outcome' = "returned"
    /\ console' = console \o CompletionOutput(demo)
    /\ UNCHANGED <<demo, chunks, locals, requests, session, run>>

\* the stream raises while the loop awaits the next chunk
StreamRaises(kind) ==
    /\ pc = "consuming"
    /\ UNCHANGED requests
    /\ Handle(kind)

KeyboardInterruptSwallowed ==
    /\ demo = "streaming_with_collection"
    /\ pc \in {"idle", "consuming"}
    /\ pc' = "cancelled"
    /\ outcome' = "returned"
    /\ console' = Append(console, Printed("error", <<"Error">>))
    /\ UNCHANGED <<demo, chunks, locals, requests, session, run>>

\* Ctrl-C while asyncio.run(example_func()) awaits the request or the next
\* chunk: the coroutine's "except Exception" does not catch it, main() does
KeyboardInterrupt ==
    /\ demo = "streaming_with_collection"
    /\ pc \in {"idle", "consuming"}
    /\ pc' = "cancelled"
    /\ outcome' = "raised"
    /\ console' = Append(console,
                         Printed("interrupted", <<"Example interrupted by user">>))
    /\ UNCHANGED <<demo, chunks, locals, requests, session, run>>

Next ==
    \/ CreateStream
    \/ \E kind \in ErrorKinds : CreateRaises(kind)
    \/ \E chunk \in StreamChunks(demo) : BasicChunk(chunk)
    \/ \E chunk \in StreamChunks(demo) : FunctionChunk(chunk)
    \/ \E chunk \in StreamChunks(demo) : RealTimeChunk(chunk)
    \/ \E chunk \in StreamChunks(demo) : ErrorDemoChunk(chunk)
    \/ StreamEnds
    \/ \E kind \in ErrorKinds : StreamRaises(kind)
    \/ KeyboardInterrupt

Spec == Init /\ [][Next]_vars

----------------------------------------------------------------------------
(* What the claims speak of, computed from the history of delivered chunks *)

\* the texts of the content fragments of a history, in arrival order
ContentTexts(h) ==
    LET with == SelectSeq(h, LAMBDA c : c.content # None)
    IN  [i \in 1..Len(with) |-> with[i].content[1]]

\* what the loop echoed for a history
Echo(h) ==
    LET texts == ContentTexts(h)
    IN  [i \in 1..Len(texts) |-> Printed("content", texts[i])]

Echoing == {"basic_streaming_demo", "streaming_with_collection"}

Terminal == {"completed", "interrupted", "cancelled"}

(* C1: in the echoing demos, in every state of the consumption (so after  *)
(* every processed chunk, not only at the end) full_response is the       *)
(* concatenation, in arrival order, of the texts of exactly the content   *)
(* fragments delivered so far; a chunk without content adds nothing.      *)
C1_FullTextIsConcatenation ==
    demo \in Echoing => full_response = Flatten(ContentTexts(chunks))

C1_Witness ==
    /\ demo = "basic_streaming_demo"
    /\ pc = "consuming"
    /\ chunks = <<Chunk(Some(<<"a">>), None), Chunk(None, None),
                  Chunk(Some(<<"b", " ">>), None)>>
    /\ full_response = <<"a", "b", " ">>

\* a chunk whose function_call carries a name opens a call
IsStart(c) == c.function_call # None /\ TruthyName(c.function_call[1].name)

\* a chunk whose function_call carries only arguments is an argument delta
IsDelta(c) ==
    /\ c.function_call # None
    /\ ~TruthyName(c.function_call[1].name)
    /\ TruthyText(c.function_call[1].arguments)

\* the positions of the call starts of a history, ascending
Starts(h) == SelectSeq([i \in 1..Len(h) |-> i], LAMBDA i : IsStart(h[i]))

\* the deltas that arrived after the k-th start and before the next one
DeltasAfterStart(h, k) ==
    LET starts == Starts(h)
        from == starts[k]
        to == IF k < Len(starts) THEN starts[k + 1] ELSE Len(h) + 1
    IN  Flatten([j \in 1..(to - from - 1) |->
                    IF IsDelta(h[from + j])
                    THEN h[from + j].function_call[1].arguments[1]
                    ELSE <<>>])

\* the arguments the k-th start chunk itself carries ("" when it has none)
ArgumentsOfStart(h, k) ==
    LET a == h[Starts(h)[k]].function_call[1].arguments
    IN  IF a = None THEN <<>> ELSE a[1]

CallsMatchStarts ==
    /\ Len(function_calls) = Len(Starts(chunks))
    /\ \A k \in 1..Len(function_calls) :
          function_calls[k].name = chunks[Starts(chunks)[k]].function_call[1].name[1]

(* C2 as stated: one record per call start, in arrival order, and the     *)
(* arguments of the i-th record are the concatenation of exactly the      *)
(* deltas that arrived after the i-th start and before the next start.    *)
C2_ArgumentsAreDeltasOnly ==
    demo = "function_calling_streaming_demo" =>
        /\ CallsMatchStarts
        /\ \A k \in 1..Len(function_calls) :
              function_calls[k].arguments = DeltasAfterStart(chunks, k)

(* C2, amended: one record per call start, in arrival order, and the      *)
(* arguments of the i-th record are the arguments the i-th start chunk    *)
(* itself carries (empty when it carries none) followed by the            *)
(* concatenation of the deltas that arrived after it and before the next  *)
(* start.                                                                 *)
C2_ArgumentsAreStartThenDeltas ==
    demo = "function_calling_streaming_demo" =>
        /\ CallsMatchStarts
        /\ \A k \in 1..Len(function_calls) :
              function_calls[k].arguments =
                  ArgumentsOfStart(chunks, k) \o DeltasAfterStart(chunks, k)

C2_Witness ==
    /\ demo = "function_calling_streaming_demo"
    /\ pc = "completed"
    /\ chunks = <<Chunk(None, Some(FunctionCall(Some("get_weather"), Some(<<"{">>)))),
                  Chunk(None, Some(FunctionCall(Some(""), Some(<<"}">>)))),
                  Chunk(None, Some(FunctionCall(Some("get_weather"), None)))>>
    /\ function_calls = <<[name |-> "get_weather", arguments |-> <<"{", "}">>],
                          [name |-> "get_weather", arguments |-> <<>>]>>

Scenario == <<Chunk(Some(Hello), None), Chunk(Some(World), None),
              Chunk(Some(Bang), None)>>

HelloWorld == <<"H", "e", "l", "l", "o", " ", "w", "o", "r", "l", "d", "!">>

ScenarioConsumed ==
    /\ demo = "real_time_processing_demo"
    /\ pc = "completed"
    /\ chunks = Scenario

(* C3 as stated: consuming Content("Hello "), Content("world"),           *)
(* Content("!") ends with the text "Hello world!", word_count 2 and       *)
(* sentence_count 1.                                                      *)
C3_ScenarioCountsTwoWords ==
    ScenarioConsumed =>
        /\ current_sentence = HelloWorld
        /\ word_count = 2
        /\ sentence_count = 1

(* C3, amended: the same scenario ends with the text "Hello world!",      *)
(* word_count 3 (the fragment "!" is a whitespace-delimited token of its  *)
(* own, so the per-fragment sum is 1 + 1 + 1) and sentence_count 1.       *)
C3_ScenarioCountsThreeWords ==
    ScenarioConsumed =>
        /\ current_sentence = HelloWorld
        /\ word_count = 3
        /\ sentence_count = 1

C3_Witness == ScenarioConsumed /\ Len(content_updates) = 3

\* the source failed while the loop of an echoing demo was consuming, after
\* at least one content fragment had been processed
FailedMidStream ==
    /\ demo \in Echoing
    /\ pc = "interrupted"
    /\ ContentTexts(chunks) # <<>>

(* C4 as stated: when the source fails after k content fragments, the     *)
(* failure is surfaced to the caller (the demo raises) together with the  *)
(* partial state, whose full_text is the concatenation of the k fragments.*)
C4_FailureSurfacedWithPartialState ==
    FailedMidStream =>
        /\ outcome = "raised"
        /\ full_response = Flatten(ContentTexts(chunks))

(* C4, amended: when the source fails after k content fragments,          *)
(* consumption stops and the failure is not surfaced to the caller: the   *)
(* except clause prints one error message and the demo returns normally.  *)
(* At that point full_response is the concatenation of the k fragments    *)
(* and each of them has been echoed to the console, but the collected     *)
(* text is handed to nobody: the complete-response output is not printed. *)
C4_FailureReportedPartialTextOnlyEchoed ==
    /\ [](FailedMidStream =>
            /\ outcome = "returned"
            /\ full_response = Flatten(ContentTexts(chunks))
            /\ console = Echo(chunks)
                           \o <<Printed("error", <<ErrorMessage(demo, "Exception")>>)>>)
    /\ [][FailedMidStream => UNCHANGED <<chunks, full_response, console>>]_vars

C4_Witness ==
    /\ demo = "basic_streaming_demo"
    /\ pc = "interrupted"
    /\ chunks = <<Chunk(Some(<<"a">>), None), Chunk(Some(<<"b", " ">>), None)>>
    /\ full_response = <<"a", "b", " ">>
    /\ outcome = "returned"

\* the printed items that are not the echo of a content fragment
Notices(c) == SelectSeq(c, LAMBDA p : p.kind # "content")

\* a history with the function_call of every delta that precedes the first
\* start removed
WithoutStrayDeltas(h) ==
    [i \in 1..Len(h) |->
        IF IsDelta(h[i]) /\ \A j \in 1..(i - 1) : ~IsStart(h[j])
        THEN Chunk(h[i].content, None)
        ELSE h[i]]

\* the calls list the loop builds from a history
RECURSIVE CallsAfter(_)
CallsAfter(h) ==
    IF h = <<>> THEN <<>>
    ELSE LET before == CallsAfter(SubSeq(h, 1, Len(h) - 1))
             last == h[Len(h)]
         IN  IF last.function_call = None THEN before
             ELSE OnFunctionCall(before, last.function_call[1])

\* this step processes an argument delta that arrives while calls is empty
StrayDeltaStep ==
    /\ demo = "function_calling_streaming_demo"
    /\ pc = "consuming"
    /\ function_calls = <<>>
    /\ Len(chunks') = Len(chunks) + 1
    /\ IsDelta(chunks'[Len(chunks')])

StrayDeltaIgnored ==
    /\ function_calls' = function_calls
    /\ content_parts' = content_parts \o ContentTexts(<<chunks'[Len(chunks')]>>)
    /\ pc' = "consuming"
    /\ outcome' = "running"

(* C5 as stated: a delta that arrives while calls is empty produces a     *)
(* recorded anomaly (the console is the only place the loop records       *)
(* anything), leaves calls and the content unchanged and does not abort   *)
(* the consumption.                                                       *)
C5_StrayDeltaRecorded ==
    [][StrayDeltaStep =>
          /\ Len(Notices(console')) > Len(Notices(console))
          /\ StrayDeltaIgnored]_vars

(* C5, amended: a delta that arrives while calls is empty is ignored      *)
(* silently: nothing is recorded or printed for it, calls stays empty,    *)
(* the content changes only by the chunk's own content, the consumption   *)
(* is not aborted, and the calls built from the whole stream are those of *)
(* the same stream without the stray deltas.                              *)
C5_StrayDeltaSilentlyIgnored ==
    /\ [][StrayDeltaStep =>
             /\ Notices(console') = Notices(console)
             /\ StrayDeltaIgnored]_vars
    /\ [](demo = "function_calling_streaming_demo" =>
             function_calls = CallsAfter(WithoutStrayDeltas(chunks)))

C5_Witness ==
    /\ demo = "function_calling_streaming_demo"
    /\ pc = "completed"
    /\ chunks = <<Chunk(None, Some(FunctionCall(None, Some(<<"{">>)))),
                  Chunk(None, Some(FunctionCall(Some("get_weather"), None))),
                  Chunk(None, Some(FunctionCall(Some(""), Some(<<"}">>))))>>
    /\ function_calls = <<[name |-> "get_weather", arguments |-> <<"}">>]>>

\* text s is a proper prefix of text t
StrictPrefix(s, t) == Len(s) < Len(t) /\ SubSeq(t, 1, Len(s)) = s

RealTime == demo = "real_time_processing_demo"

(* C6 as stated: the live display is refreshed exactly once per chunk of  *)
(* the stream, in arrival order, and the text of each refresh strictly    *)
(* extends the text of the refresh before it.                             *)
C6_OneUpdatePerChunkStrictGrowth ==
    RealTime =>
        /\ Len(content_updates) = Len(chunks)
        /\ \A i \in 1..(Len(content_updates) - 1) :
              StrictPrefix(content_updates[i], content_updates[i + 1])

(* C6, amended: the live display is refreshed exactly once per content    *)
(* fragment (a chunk without content refreshes nothing), in arrival       *)
(* order: the i-th refresh shows the concatenation of the first i content *)
(* fragments, so each refresh extends the one before it by its fragment's *)
(* text, strictly unless that text is empty.                              *)
C6_OneUpdatePerContentFragment ==
    RealTime =>
        /\ Len(content_updates) = Len(ContentTexts(chunks))
        /\ \A i \in 1..Len(content_updates) :
              content_updates[i] = Flatten(SubSeq(ContentTexts(chunks), 1, i))

C6_Witness ==
    /\ RealTime
    /\ pc = "consuming"
    /\ chunks = <<Chunk(Some(<<"a">>), None), Chunk(None, None),
                  Chunk(Some(<<>>), None)>>
    /\ content_updates = <<(<<"a">>), (<<"a">>)>>

Cancelled == demo = "streaming_with_collection" /\ pc = "cancelled"

(* C7 as stated: cancelling after N processed chunks yields a non-error   *)
(* result (the example returns one) whose full_text is the concatenation  *)
(* of the first N content fragments.                                      *)
C7_CancelReturnsPartialResult ==
    Cancelled =>
        /\ outcome = "returned"
        /\ full_response = Flatten(ContentTexts(chunks))

(* C7, amended: an interrupt delivered while the example awaits the       *)
(* request or the next chunk, after N chunks have been processed, takes   *)
(* effect between chunks and yields no result: it leaves the example as   *)
(* an exception, which main() reports with an "interrupted" notice, after *)
(* the echo of exactly the first N content fragments and without the      *)
(* complete-response output or an error message, so the ending is told    *)
(* apart from Completed and from a failure.  full_response, then the      *)
(* concatenation of those fragments, is discarded with the coroutine.     *)
C7_CancelRaisesAfterEcho ==
    /\ [](Cancelled =>
            /\ outcome = "raised"
            /\ full_response = Flatten(ContentTexts(chunks))
            /\ console = Echo(chunks)
                 \o <<Printed("interrupted", <<"Example interrupted by user">>)>>)
    /\ [][pc # "cancelled" /\ pc' = "cancelled" =>
             UNCHANGED <<chunks, full_response>>]_vars

C7_Witness ==
    /\ Cancelled
    /\ chunks = <<Chunk(Some(<<"a">>), None), Chunk(Some(<<"b", " ">>), None)>>
    /\ full_response = <<"a", "b", " ">>

EntersTerminal == pc \notin Terminal /\ pc' \in Terminal

TerminalIsFinal == pc \in Terminal => UNCHANGED vars

(* C8 as stated: no terminal state is reached without passing through    *)
(* Consuming, also when the request is rejected before any chunk arrives, *)
(* and a terminal state is never left or changed.                        *)
C8_TerminalOnlyAfterConsuming ==
    /\ [][EntersTerminal => pc = "consuming"]_vars
    /\ [][TerminalIsFinal]_vars

(* C8, amended: a terminal state is reached from Consuming, except that a *)
(* request rejected before any chunk arrives goes from Idle straight to   *)
(* Interrupted, and an interrupt while the request is pending goes from   *)
(* Idle straight to Cancelled; Completed is reached from Consuming only;  *)
(* a terminal state is never left or changed and no chunk is processed in *)
(* it.                                                                    *)
C8_TerminalAfterConsumingOrRejectedRequest ==
    /\ [][EntersTerminal =>
             \/ pc = "consuming"
             \/ /\ pc = "idle"
                /\ chunks = <<>>
                /\ \/ pc' = "interrupted"
                   \/ pc' = "cancelled" /\ demo = "streaming_with_collection"]_vars
    /\ [][TerminalIsFinal]_vars

C8_Witness ==
    /\ demo = "error_handling_demo"
    /\ pc = "interrupted"
    /\ chunks = <<>>
    /\ console = <<Printed("error", <<"Handled BadRequestError">>)>>

\* the value of a decimal numeral
RECURSIVE ParseInt(_)
ParseInt(numeral) ==
    LET value(d) == CHOOSE v \in 0..9 : Digits[v + 1] = d
    IN  IF Len(numeral) = 1 THEN value(numeral[1])
        ELSE 10 * ParseInt(SubSeq(numeral, 1, Len(numeral) - 1))
                 + value(numeral[Len(numeral)])

(* C9: word_count and sentence_count never decrease from one step to the  *)
(* next, and whenever the statistics table shows rows, the number in its  *)
(* Characters row is the length of the accumulated text.                  *)
C9_CountersMonotoneCharactersExact ==
    /\ [][word_count' >= word_count /\ sentence_count' >= sentence_count]_vars
    /\ [](stats_rows # <<>> =>
            /\ stats_rows[3].metric = "Characters"
            /\ ParseInt(stats_rows[3].count) = Len(current_sentence))

C9_Witness ==
    /\ RealTime
    /\ chunks = <<Chunk(Some(Hello), None), Chunk(Some(World), None),
                  Chunk(None, None)>>
    /\ word_count = 2
    /\ stats_rows[3].count = <<"1", "1">>

\* word_count minus the token count of the whole concatenated text
WordCountError == word_count - SplitCount(Flatten(ContentTexts(chunks)))

(* C10: for a text delivered as n content fragments, the incrementally    *)
(* computed word_count differs from the token count of the whole text by  *)
(* at most n - 1 (one per chunk boundary), in either direction.           *)
C10_WordCountWithinBoundaries ==
    RealTime =>
        LET n == Len(ContentTexts(chunks))
        IN  /\ n = 0 => WordCountError = 0
            /\ n >= 1 => WordCountError <= n - 1 /\ 0 - WordCountError <= n - 1

C10_Witness ==
    /\ RealTime
    /\ Len(ContentTexts(chunks)) = 3
    /\ WordCountError = 2
    /\ \E i \in 1..3 : SplitCount(ContentTexts(chunks)[i]) = 2

----------------------------------------------------------------------------
(* Requests *)

\* a demo whose request or stream has failed
Failed == pc = "interrupted"

----------------------------------------------------------------------------
(* interactive_streaming: a conversation of turns, one request per turn *)

MaxTurns == 2

UpperCase == <<"A", "B", "C", "D", "E", "F", "G", "H", "I", "J", "K", "L", "M",
               "N", "O", "P", "Q", "R", "S", "T", "U", "V", "W", "X", "Y", "Z">>

LowerCase == <<"a", "b", "c", "d", "e", "f", "g", "h", "i", "j", "k", "l", "m",
               "n", "o", "p", "q", "r", "s", "t", "u", "v", "w", "x", "y", "z">>

\* user_input.lower()
Lower(text) ==
    [i \in DOMAIN text |->
        IF \E k \in DOMAIN UpperCase : UpperCase[k] = text[i]
        THEN LowerCase[CHOOSE k \in DOMAIN UpperCase : UpperCase[k] = text[i]]
        ELSE text[i]]

\* ['quit', 'exit', 'bye']
QuitWords == {<<"q", "u", "i", "t">>, <<"e", "x", "i", "t">>, <<"b", "y", "e">>}

\* what the user may type at the prompt
UserInputs == {<<"h", "i">>, <<"y", "o">>, <<"q", "u", "i", "t">>,
               <<"B", "y", "e">>}

\* chunks the stream of a turn may carry
InteractiveChunks == {Chunk(None, None), Chunk(Some(<<"a">>), None)}

InteractiveInit ==
    /\ demo = "interactive_streaming"
    /\ pc = "prompt"
    /\ outcome = "running"
    /\ chunks = <<>>
    /\ console = <<>>
    /\ full_response = <<>>
    /\ function_calls = <<>>
    /\ content_parts = <<>>
    /\ word_count = 0
    /\ sentence_count = 0
    /\ current_sentence = <<>>
    /\ stats_rows = <<>>
    /\ content_updates = <<>>
    /\ requests = <<>>
    /\ conversation_history = <<>>
    /\ response_content = <<>>
    /\ turns = <<>>
    /\ runner = "off"
    /\ started = <<>>

\* the outcome of the current turn, in the history of turns
TurnEnds(result) == [turns EXCEPT ![Len(turns)].result = result]

\* input() returns one of the quit words: print the goodbye, break, return
UserQuits(user_input) ==
    /\ demo = "interactive_streaming"
    /\ pc = "prompt"
    /\ Lower(user_input) \in QuitWords
    /\ pc' = "completed"
    /\ outcome' = "returned"
    /\ console' = Append(console, Printed("goodbye", <<"Goodbye!">>))
    /\ UNCHANGED <<demo, chunks, locals, requests, session, run>>

\* input() returns a message: append it to the history, print the AI prompt
UserAsks(user_input) ==
    /\ demo = "interactive_streaming"
    /\ pc = "prompt"
    /\ Lower(user_input) \notin QuitWords
    /\ Len(turns) < MaxTurns
    /\ conversation_history' =
           Append(conversation_history, Message("user", user_input))
    /\ console' = Append(console, Printed("prompt", <<"AI: ">>))
    /\ pc' = "idle"
    /\ chunks' = <<>>
    /\ turns' = Append(turns, [user |-> user_input, fragments |-> <<>>,
                               result |-> "pending"])
    /\ UNCHANGED <<demo, outcome, locals, requests, response_content, run>>

InteractiveCreateKeepsResponse ==
    /\ demo = "interactive_streaming"
    /\ pc = "idle"
    /\ requests' = Append(requests, Request(demo))
    /\ pc' = "consuming"
    /\ UNCHANGED <<demo, outcome, chunks, console, locals, session, run>>

\* create(messages=conversation_history) returns; response_content = ""
InteractiveCreate ==
    /\ demo = "interactive_streaming"
    /\ pc = "idle"
    /\ requests' = Append(requests, Request(demo))
    /\ response_content' = <<>>
    /\ pc' = "consuming"
    /\ UNCHANGED <<demo, outcome, chunks, console, locals, conversation_history,
                   turns, run>>

\* the except clause of the turn: print the error, go back to the prompt
InteractiveHandle ==
    /\ console' = Append(console, Printed("error", <<ErrorMessage(demo, "Exception")>>))
    /\ pc' = "prompt"
    /\ turns' = TurnEnds("failed")
    /\ UNCHANGED <<demo, outcome, chunks, locals, conversation_history,
                   response_content, run>>

\* the create call of the turn raises
InteractiveCreateRaises ==
    /\ demo = "interactive_streaming"
    /\ pc = "idle"
    /\ requests' = Append(requests, Request(demo))
    /\ InteractiveHandle

\* one iteration of the loop of the turn
InteractiveChunk(chunk) ==
    /\ demo = "interactive_streaming"
    /\ pc = "consuming"
    /\ Len(chunks) < MaxChunks
    /\ chunks' = Append(chunks, chunk)
    /\ IF chunk.content # None
       THEN /\ response_content' = AppendContent(response_content, chunk.content[1])
            /\ console' = Append(console, Printed("content", chunk.content[1]))
            /\ turns' = [turns EXCEPT ![Len(turns)].fragments =
                                          Append(@, chunk.content[1])]
       ELSE UNCHANGED <<response_content, console, turns>>
    /\ UNCHANGED <<demo, pc, outcome, locals, requests, conversation_history, run>>

\* the stream of the turn is exhausted: append the answer to the history
InteractiveStreamEnds ==
    /\ demo = "interactive_streaming"
    /\ pc = "consuming"
    /\ conversation_history' =
           Append(conversation_history, Message("assistant", response_content))
    /\ pc' = "prompt"
    /\ turns' = TurnEnds("answered")
    /\ UNCHANGED <<demo, outcome, chunks, console, locals, requests,
                   response_content, run>>

\* the stream of the turn raises while the loop awaits the next chunk
InteractiveStreamRaises ==
    /\ demo = "interactive_streaming"
    /\ pc = "consuming"
    /\ UNCHANGED requests
    /\ InteractiveHandle

\* Ctrl-C at the prompt or at an await: main() reports it
InteractiveInterrupt ==
    /\ demo = "interactive_streaming"
    /\ pc \in {"prompt", "idle", "consuming"}
    /\ pc' = "cancelled"
    /\ outcome' = "raised"
    /\ console' = Append(console,
                         Printed("interrupted", <<"Example interrupted by user">>))
    /\ UNCHANGED <<demo, chunks, locals, requests, session, run>>

InteractiveNext ==
    \/ \E user_input \in UserInputs : UserQuits(user_input)
    \/ \E user_input \in UserInputs : UserAsks(user_input)
    \/ InteractiveCreate
    \/ InteractiveCreateRaises
    \/ \E chunk \in InteractiveChunks : InteractiveChunk(chunk)
    \/ InteractiveStreamEnds
    \/ InteractiveStreamRaises
    \/ InteractiveInterrupt

InteractiveSpec == InteractiveInit /\ [][InteractiveNext]_vars

\* the entries a history of turns leaves in the conversation: the user's
\* message, then the answer when the turn was answered
RECURSIVE EntriesOf(_)
EntriesOf(ts) ==
    IF ts = <<>> THEN <<>>
    ELSE LET t == ts[Len(ts)]
         IN  EntriesOf(SubSeq(ts, 1, Len(ts) - 1))
                 \o <<Message("user", t.user)>>
                 \o (IF t.result = "answered"
                     THEN <<Message("assistant", Flatten(t.fragments))>>
                     ELSE <<>>)

\* one request per turn, issued when the turn's create call is made; an
\* interrupt may end the last turn before or after its request
OneRequestPerTurn ==
    CASE pc = "idle" -> Len(requests) = Len(turns) - 1
      [] pc = "cancelled" ->
            Len(requests) = Len(turns) \/ Len(requests) = Len(turns) - 1
      [] OTHER -> Len(requests) = Len(turns)

(* C12: after any sequence of turns the conversation holds, turn by turn, *)
(* the user's message immediately followed, when the turn was answered,   *)
(* by an assistant entry that is the concatenation of exactly that turn's *)
(* content fragments; a turn whose request or stream failed leaves only   *)
(* its user message, and the request of every turn carries the whole      *)
(* conversation so far, unanswered user messages included, ending with    *)
(* that turn's user message.                                              *)
C12_HistoryFollowsTurns ==
    demo = "interactive_streaming" =>
        /\ conversation_history = EntriesOf(turns)
        /\ OneRequestPerTurn
        /\ \A i \in 1..Len(requests) :
              requests[i].messages =
                  EntriesOf(SubSeq(turns, 1, i - 1))
                      \o <<Message("user", turns[i].user)>>

C12_Witness ==
    /\ demo = "interactive_streaming"
    /\ pc = "prompt"
    /\ turns = <<[user |-> <<"h", "i">>, fragments |-> <<(<<"a">>)>>,
                  result |-> "failed"],
                 [user |-> <<"y", "o">>, fragments |-> <<(<<"a">>), (<<"a">>)>>,
                  result |-> "answered"]>>
    /\ conversation_history = <<Message("user", <<"h", "i">>),
                                Message("user", <<"y", "o">>),
                                Message("assistant", <<"a", "a">>)>>
    /\ requests[2].messages = <<Message("user", <<"h", "i">>),
                                Message("user", <<"y", "o">>)>>

----------------------------------------------------------------------------
(* run_all_demos: the four demos of StreamingDemo, awaited in turn *)

\* demos = [self.basic_streaming_demo, ..., self.error_handling_demo]
DemoOrder == <<"basic_streaming_demo", "function_calling_streaming_demo",
               "real_time_processing_demo", "error_handling_demo">>

\* chunks the stream of a demo may carry during a run of all demos
RunAllChunks(d) ==
    IF d = "function_calling_streaming_demo"
    THEN {Chunk(None, Some(FunctionCall(Some("get_weather"), Some(<<"{">>))))}
    ELSE {Chunk(Some(<<"a">>), None)}

\* the welcome panel is printed, the loop is about to start
RunAllInit ==
    /\ demo = "run_all_demos"
    /\ pc = "not_started"
    /\ outcome = "running"
    /\ chunks = <<>>
    /\ console = <<Printed("welcome", <<"OpenAI SDK Streaming Demo">>)>>
    /\ full_response = <<>>
    /\ function_calls = <<>>
    /\ content_parts = <<>>
    /\ word_count = 0
    /\ sentence_count = 0
    /\ current_sentence = <<>>
    /\ stats_rows = <<>>
    /\ content_updates = <<>>
    /\ requests = <<>>
    /\ conversation_history = <<>>
    /\ response_content = <<>>
    /\ turns = <<>>
    /\ runner = "loop"
    /\ started = <<>>

\* console.print("\n" + "="*50 + "\n")
Separator == Printed("separator", <<"=">>)

\* the awaited demo has returned, or none has been awaited yet
DemoReturned ==
    \/ pc = "not_started"
    \/ pc \in {"completed", "interrupted", "cancelled"} /\ outcome = "returned"

StartDemoAt(i) ==
    /\ demo' = DemoOrder[i]
    /\ started' = Append(started, DemoOrder[i])
    /\ console' = console
           \o (IF started = <<>> THEN <<>> ELSE <<Separator>>)
           \o <<Printed("demo_header",
                        Str(i) \o <<"/">> \o Str(Len(DemoOrder)))>>
    /\ pc' = "idle"
    /\ outcome' = "running"
    /\ chunks' = <<>>
    /\ full_response' = <<>>
    /\ function_calls' = <<>>
    /\ content_parts' = <<>>
    /\ word_count' = 0
    /\ sentence_count' = 0
    /\ current_sentence' = <<>>
    /\ stats_rows' = <<>>
    /\ content_updates' = <<>>
    /\ UNCHANGED <<requests, session, runner>>

\* the next iteration of "for i, demo in enumerate(demos, 1)": the separator
\* after the demo that returned, the header, and the call of the next demo
\* with fresh locals
StartDemo ==
    /\ runner = "loop"
    /\ DemoReturned
    /\ Len(started) < Len(DemoOrder)
    /\ StartDemoAt(Len(started) + 1)

\* the last demo has returned: the separator and the completion banner
FinishRun ==
    /\ runner = "loop"
    /\ DemoReturned
    /\ Len(started) = Len(DemoOrder)
    /\ runner' = "done"
    /\ console' = console \o <<Separator,
                               Printed("banner", <<"All demos completed!">>)>>
    /\ UNCHANGED <<demo, pc, outcome, chunks, locals, requests, session, started>>

RunAllNext ==
    \/ StartDemo
    \/ FinishRun
    \/ CreateStream
    \/ \E kind \in ErrorKinds : CreateRaises(kind)
    \/ \E chunk \in RunAllChunks(demo) : BasicChunk(chunk)
    \/ \E chunk \in RunAllChunks(demo) : FunctionChunk(chunk)
    \/ \E chunk \in RunAllChunks(demo) : RealTimeChunk(chunk)
    \/ \E chunk \in RunAllChunks(demo) : ErrorDemoChunk(chunk)
    \/ StreamEnds
    \/ \E kind \in ErrorKinds : StreamRaises(kind)

\* the event loop keeps running the coroutine, and every stream ends or
\* raises after finitely many chunks
RunAllSpec == RunAllInit /\ [][RunAllNext]_vars /\ WF_vars(RunAllNext)

Banner == Printed("banner", <<"All demos completed!">>)

(* C13: run_all_demos starts the four demos exactly once each, in the     *)
(* order basic, function-calling, real-time, error-handling; a request or *)
(* stream failure inside a demo never leaves it as an exception, the only *)
(* step after it is the start of the next demo (or the banner after the   *)
(* last), and the completion banner is always reached, after all four.    *)
C13_AllDemosRunInOrderBannerReached ==
    /\ [](/\ started = SubSeq(DemoOrder, 1, Len(started))
          /\ outcome # "raised"
          /\ runner = "done" =>
                started = DemoOrder /\ console[Len(console)] = Banner)
    /\ [][Failed =>
             \/ /\ Len(started) < Len(DemoOrder)
                /\ started' = Append(started, DemoOrder[Len(started) + 1])
                /\ pc' = "idle"
             \/ Len(started) = Len(DemoOrder) /\ runner' = "done"]_vars
    /\ <>(runner = "done")

C13_Witness ==
    /\ runner = "done"
    /\ started = DemoOrder
    /\ \E i \in DOMAIN console :
          console[i] = Printed("error", <<"Error during streaming">>)
    /\ \E i \in DOMAIN console :
          console[i] = Printed("error", <<"Error during real-time processing">>)
    /\ \E i \in DOMAIN console : console[i].kind = "function_call"
    /\ console[Len(console)] = Banner

====
